---------------------------- MODULE Spec2Model ----------------------------
(***************************************************************************)
(* VeaxFlow agent (src/src/veaxflow_agent/main.py): the LiquidityPool      *)
(* state, the parameter-adjustment engine ai_agent and the control loop    *)
(* main.                                                                   *)
(*                                                                         *)
(* Numbers.  The program computes fees, prices, volumes and yields in      *)
(* Python floats.  Here every such quantity is an exact rational           *)
(* [n |-> numerator, d |-> denominator] in lowest terms with d > 0, and    *)
(* +, -, *, /, <=, max, min are the exact operations.  Decimal literals of *)
(* the source are the rationals they denote (0.05 = 1/20, 0.95 = 19/20).   *)
(* The double-precision rounding error of each operation (0.3 - 0.1 is     *)
(* 0.19999999999999998 in the program) is therefore not represented.       *)
(* Reserves are Python ints and are integers here; int(r * 1.1) is the     *)
(* truncation of the exact product, which is what the double product       *)
(* gives for every reserve the model reaches.                              *)
(*                                                                         *)
(* Text.  The decimal strings of a pool record and of a chart are          *)
(* sequences of one-character strings, parsed by ParseInt and ParseFloat.  *)
(***************************************************************************)
EXTENDS Integers, Sequences, FiniteSets, TLC

VARIABLES
    pc,           \* position of main: "start", "loop", "done", "aborted",
                  \* "crashed"; "engine" when ai_agent is driven directly
    pools,        \* what fetch_pool_data returned (a sequence of records)
    pool,         \* the LiquidityPool object (NoPool before construction)
    iter,         \* iterations of main's for loop completed
    fetches,      \* calls of fetch_volume_data made
    invocations,  \* calls of ai_agent made
    high_steps,   \* how many of them took the high-volume branch
    volume_data,  \* the DataFrame handed to the latest ai_agent call
    transport,    \* outcome of the latest volume request: "none", "ok", "failed"
    call          \* the latest ai_agent call: the pool at entry, its locals
                  \* (avg_volume, yield_estimate) and its return value

vars == <<pc, pools, pool, iter, fetches, invocations, high_steps,
          volume_data, transport, call>>

---------------------------------------------------------------------------
(* Bounds of the model *)

MaxPools == 2       \* records in a pool listing
MaxChartLen == 2    \* points in a volume chart
MaxSteps == 9       \* direct ai_agent invocations in EngineSpec
MaxHigh == 4        \* of which high-volume ones

(* Program constants *)

Threshold == 700
Fallback == 5000000
LoopCount == 3

---------------------------------------------------------------------------
(* Exact rational arithmetic standing for the float operations *)

Abs(a) == IF a < 0 THEN -a ELSE a

RECURSIVE GCD(_, _)
GCD(a, b) == IF b = 0 THEN a ELSE GCD(b, a % b)

LCM(a, b) == (a \div GCD(a, b)) * b

Norm(n, d) ==
    LET g == GCD(Abs(n), d)
    IN  [n |-> IF n < 0 THEN -(Abs(n) \div g) ELSE n \div g, d |-> d \div g]

R(a) == [n |-> a, d |-> 1]

RAdd(x, y) ==
    LET L == LCM(x.d, y.d)
    IN  Norm(x.n * (L \div x.d) + y.n * (L \div y.d), L)

RSub(x, y) ==
    LET L == LCM(x.d, y.d)
    IN  Norm(x.n * (L \div x.d) - y.n * (L \div y.d), L)

RMul(x, y) ==
    LET g1 == GCD(Abs(x.n), y.d)
        g2 == GCD(Abs(y.n), x.d)
    IN  IF x.n = 0 \/ y.n = 0 THEN R(0)
        ELSE Norm((x.n \div g1) * (y.n \div g2), (x.d \div g2) * (y.d \div g1))

\* x / y for y > 0
RDiv(x, y) == RMul(x, [n |-> y.d, d |-> y.n])

RLeq(x, y) ==
    LET L == LCM(x.d, y.d)
    IN  x.n * (L \div x.d) <= y.n * (L \div y.d)

RLess(x, y) == ~RLeq(y, x)

RMax(x, y) == IF RLeq(y, x) THEN x ELSE y

RMin(x, y) == IF RLeq(x, y) THEN x ELSE y

\* int(x): truncation toward zero
Trunc(x) == IF x.n >= 0 THEN x.n \div x.d ELSE -((-x.n) \div x.d)

RECURSIVE RSum(_)
RSum(s) == IF s = <<>> THEN R(0) ELSE RAdd(Head(s), RSum(Tail(s)))

---------------------------------------------------------------------------
(* Decimal strings *)

Digit(c) ==
    CASE c = "0" -> 0 [] c = "1" -> 1 [] c = "2" -> 2 [] c = "3" -> 3
      [] c = "4" -> 4 [] c = "5" -> 5 [] c = "6" -> 6 [] c = "7" -> 7
      [] c = "8" -> 8 [] c = "9" -> 9

RECURSIVE ParseDigits(_, _)
ParseDigits(s, acc) ==
    IF s = <<>> THEN acc ELSE ParseDigits(Tail(s), 10 * acc + Digit(Head(s)))

\* int("123")
ParseInt(s) == ParseDigits(s, 0)

RECURSIVE Pow10(_)
Pow10(k) == IF k = 0 THEN 1 ELSE 10 * Pow10(k - 1)

\* float("4.75"), float("700")
ParseFloat(s) ==
    LET dots == {i \in 1..Len(s) : s[i] = "."}
    IN  IF dots = {} THEN R(ParseInt(s))
        ELSE LET p == CHOOSE i \in dots : TRUE
                 ip == SubSeq(s, 1, p - 1)
                 fp == SubSeq(s, p + 1, Len(s))
             IN  RAdd(R(ParseInt(ip)), Norm(ParseInt(fp), Pow10(Len(fp))))

---------------------------------------------------------------------------
(* LiquidityPool *)

DefaultFee == [n |-> 3, d |-> 10]      \* 0.3
RangeBelow == [n |-> 19, d |-> 20]     \* 0.95
RangeAbove == [n |-> 21, d |-> 20]     \* 1.05

RECURSIVE SumLiquidities(_)
SumLiquidities(liqs) ==
    IF liqs = <<>> THEN R(0)
    ELSE IF Head(liqs) # <<"0">>
         THEN RAdd(ParseFloat(Head(liqs)), SumLiquidities(Tail(liqs)))
         ELSE SumLiquidities(Tail(liqs))

\* LiquidityPool.__init__(pool_data)
LiquidityPool(pool_data) ==
    LET spot == ParseFloat(pool_data.spot_price)
    IN  [token_a |-> pool_data.token_a,
         token_b |-> pool_data.token_b,
         reserve_a |-> ParseInt(pool_data.reserve_a),
         reserve_b |-> ParseInt(pool_data.reserve_b),
         spot_price |-> spot,
         fee_tier |-> DefaultFee,
         price_range |-> <<RMul(spot, RangeBelow), RMul(spot, RangeAbove)>>,
         total_liquidity |-> SumLiquidities(pool_data.liquidities),
         pair_id |-> pool_data.token_a \o "-" \o pool_data.token_b]

NoPool == [token_a |-> "", token_b |-> "", reserve_a |-> 0, reserve_b |-> 0,
           spot_price |-> R(0), fee_tier |-> R(0),
           price_range |-> <<R(0), R(0)>>, total_liquidity |-> R(0),
           pair_id |-> ""]

---------------------------------------------------------------------------
(* DataFrames: the column names, the number of rows and the volume column *)

Frame(cols, volume, nrows) == [cols |-> cols, volume |-> volume, nrows |-> nrows]

\* pd.DataFrame({"volume": [5_000_000]})
FallbackFrame == Frame({"volume"}, <<R(Fallback)>>, 1)

\* DataFrame.empty
Empty(df) == df.nrows = 0 \/ df.cols = {}

\* volume_data["volume"].mean()
Mean(s) == RDiv(RSum(s), R(Len(s)))

---------------------------------------------------------------------------
(* fetch_volume_data: the request either raises requests.RequestException  *)
(* (response.ok = FALSE) or yields a chart, a sequence of points           *)
(* [time_label, value].  An empty chart builds a DataFrame without a       *)
(* "value" column, and df["value"] raises KeyError, which the except       *)
(* clause does not catch.                                                  *)

\* variant: the except clause misses the transport failure as well
VolumeRaisesOnFailure(response) == ~response.ok \/ response.chart = <<>>

VolumeRaises(response) == response.ok /\ response.chart = <<>>

fetch_volume_data(spot_price, response) ==
    IF ~response.ok THEN FallbackFrame
    ELSE Frame({"time_label", "volume"},
               [i \in 1..Len(response.chart) |->
                    RMul(ParseFloat(response.chart[i].value), spot_price)],
               Len(response.chart))

---------------------------------------------------------------------------
(* ai_agent *)

FeeFloor == [n |-> 1, d |-> 20]        \* 0.05
FeeCap == R(1)                         \* 1.0
FeeStep == [n |-> 1, d |-> 10]         \* 0.1
ReserveBoost == [n |-> 11, d |-> 10]   \* 1.1
NarrowStep == [n |-> 1, d |-> 50]      \* 0.02

AvgVolume(df) ==
    IF ~Empty(df) /\ "volume" \in df.cols THEN Mean(df.volume) ELSE R(Fallback)

\* variant: the threshold itself counts as low volume
HighVolumeStrict(avg_volume) == RLess(R(Threshold), avg_volume)

HighVolume(avg_volume) == RLeq(R(Threshold), avg_volume)

\* variant: the floor is forgotten
HighFeeNoFloor(fee_tier) == RSub(fee_tier, FeeStep)

HighFee(fee_tier) == RMax(FeeFloor, RSub(fee_tier, FeeStep))

\* variant: the cap is forgotten
LowFeeNoCap(fee_tier) == RAdd(fee_tier, FeeStep)

LowFee(fee_tier) == RMin(FeeCap, RAdd(fee_tier, FeeStep))

\* variant: round() in place of int()
BoostReserveRounded(reserve) ==
    LET x == RMul(R(reserve), ReserveBoost)
    IN  (2 * x.n + x.d) \div (2 * x.d)

BoostReserve(reserve) == Trunc(RMul(R(reserve), ReserveBoost))

WidenRange(range) == <<RMul(range[1], RangeBelow), RMul(range[2], RangeAbove)>>

\* variant: the signs of the narrowing are swapped
NarrowRangeOutward(range) ==
    <<RSub(range[1], NarrowStep), RAdd(range[2], NarrowStep)>>

\* variant: a range narrower than the two steps is left alone
NarrowRangeGuarded(range) ==
    IF RLess(RSub(range[2], range[1]), RAdd(NarrowStep, NarrowStep))
    THEN range
    ELSE <<RAdd(range[1], NarrowStep), RSub(range[2], NarrowStep)>>

NarrowRange(range) == <<RAdd(range[1], NarrowStep), RSub(range[2], NarrowStep)>>

YieldEstimate(new_fee, avg_volume) == RMul(RDiv(new_fee, R(100)), avg_volume)

\* variant: the high-volume branch rescales total_liquidity with the reserves
AdjustedPoolRescalesLiquidity(p, avg_volume) ==
    IF HighVolume(avg_volume)
    THEN [p EXCEPT !.fee_tier = HighFee(p.fee_tier),
                   !.reserve_a = BoostReserve(p.reserve_a),
                   !.reserve_b = BoostReserve(p.reserve_b),
                   !.total_liquidity = RMul(p.total_liquidity, ReserveBoost),
                   !.price_range = WidenRange(p.price_range)]
    ELSE [p EXCEPT !.fee_tier = LowFee(p.fee_tier),
                   !.price_range = NarrowRange(p.price_range)]

\* the pool as ai_agent leaves it
AdjustedPool(p, avg_volume) ==
    IF HighVolume(avg_volume)
    THEN [p EXCEPT !.fee_tier = HighFee(p.fee_tier),
                   !.reserve_a = BoostReserve(p.reserve_a),
                   !.reserve_b = BoostReserve(p.reserve_b),
                   !.price_range = WidenRange(p.price_range)]
    ELSE [p EXCEPT !.fee_tier = LowFee(p.fee_tier),
                   !.price_range = NarrowRange(p.price_range)]

\* variant: the yield is estimated with the fee before the adjustment
CallRecordOldFee(p, df) ==
    LET avg == AvgVolume(df)
        q == AdjustedPool(p, avg)
    IN  [entry |-> p,
         avg_volume |-> avg,
         yield_estimate |-> YieldEstimate(p.fee_tier, avg),
         result |-> <<q.fee_tier, q.price_range>>]

\* the record kept of one call: the pool at entry, the locals, the result
CallRecord(p, df) ==
    LET avg == AvgVolume(df)
        q == AdjustedPool(p, avg)
    IN  [entry |-> p,
         avg_volume |-> avg,
         yield_estimate |-> YieldEstimate(q.fee_tier, avg),
         result |-> <<q.fee_tier, q.price_range>>]

NoCall == [entry |-> NoPool, avg_volume |-> R(0), yield_estimate |-> R(0),
           result |-> <<R(0), <<R(0), R(0)>>>>]

\* one whole call ai_agent(pool, df)
ai_agent(df) ==
    /\ pool' = AdjustedPool(pool, AvgVolume(df))
    /\ call' = CallRecord(pool, df)
    /\ volume_data' = df
    /\ invocations' = invocations + 1
    /\ high_steps' = IF HighVolume(AvgVolume(df)) THEN high_steps + 1 ELSE high_steps

---------------------------------------------------------------------------
(* What the two endpoints may answer *)

SeqsUpTo(S, k) == UNION {[1..m -> S] : m \in 0..k}

NearUsdt(token_a, token_b) ==
    token_a = "wrap.near" /\ token_b = "usdt.tether-token.near"

PoolRecord(token_a, token_b, reserve_a, reserve_b, spot_price, liquidities) ==
    [token_a |-> token_a, token_b |-> token_b, reserve_a |-> reserve_a,
     reserve_b |-> reserve_b, spot_price |-> spot_price,
     liquidities |-> liquidities]

PoolRecords ==
    {PoolRecord("wrap.near", "usdt.tether-token.near", <<"1","0","0","0">>,
                <<"5">>, <<"5",".","0">>, <<<<"0">>, <<"1","5">>, <<"2","0","0">>>>),
     PoolRecord("wrap.near", "usdt.tether-token.near", <<"7">>, <<"2","0">>,
                <<"0",".","2">>, <<<<"0">>>>),
     PoolRecord("wrap.near", "usdt.tether-token.near", <<"0">>, <<"1","0">>,
                <<"1">>, <<<<"3",".","5">>>>),
     PoolRecord("wrap.near", "aurora", <<"3","0">>, <<"4">>, <<"2",".","5">>,
                <<<<"1">>>>),
     PoolRecord("usdt.tether-token.near", "wrap.near", <<"5">>, <<"1","0","0","0">>,
                <<"0",".","2">>, <<>>)}

PoolResponses ==
    {[ok |-> FALSE, pools |-> <<>>]}
        \cup {[ok |-> TRUE, pools |-> l] : l \in SeqsUpTo(PoolRecords, MaxPools)}

ChartPoints ==
    {[time_label |-> "00:00", value |-> <<"6","0">>],
     [time_label |-> "01:00", value |-> <<"1","4","0">>],
     [time_label |-> "02:00", value |-> <<"7","0","0">>]}

VolumeResponses ==
    {[ok |-> FALSE, chart |-> <<>>]}
        \cup {[ok |-> TRUE, chart |-> c] : c \in SeqsUpTo(ChartPoints, MaxChartLen)}

\* frames handed to ai_agent when it is driven directly
Half == [n |-> 1, d |-> 2]

EngineFrames ==
    {Frame({}, <<>>, 0),
     Frame({"volume"}, <<>>, 0),
     Frame({"time_label"}, <<>>, 1),
     FallbackFrame,
     Frame({"time_label", "volume"}, <<R(300)>>, 1),
     Frame({"time_label", "volume"}, <<RSub(R(Threshold), Half)>>, 1),
     Frame({"time_label", "volume"}, <<R(Threshold)>>, 1),
     Frame({"time_label", "volume"}, <<R(1000)>>, 1),
     Frame({"time_label", "volume"}, <<R(600), R(800)>>, 2)}

---------------------------------------------------------------------------
(* fetch_pool_data and main *)

None == [none |-> TRUE, records |-> <<>>]

fetch_pool_data(response) ==
    IF ~response.ok THEN None ELSE [none |-> FALSE, records |-> response.pools]

\* not pools
Falsy(p) == p.none \/ p.records = <<>>

Matches(p) ==
    {i \in 1..Len(p.records) : NearUsdt(p.records[i].token_a, p.records[i].token_b)}

\* next((pool for pool in pools if ...), None), when there is a match
FirstMatch(p) == p.records[CHOOSE i \in Matches(p) : \A j \in Matches(p) : i <= j]

Init ==
    /\ pc = "start"
    /\ pools = None
    /\ pool = NoPool
    /\ iter = 0
    /\ fetches = 0
    /\ invocations = 0
    /\ high_steps = 0
    /\ volume_data = Frame({}, <<>>, 0)
    /\ transport = "none"
    /\ call = NoCall

\* main, lines 125-128: no pools
MainNoPools(response) ==
    /\ pc = "start"
    /\ Falsy(fetch_pool_data(response))
    /\ pools' = fetch_pool_data(response)
    /\ pc' = "aborted"
    /\ UNCHANGED <<pool, iter, fetches, invocations, high_steps, volume_data,
                   transport, call>>

\* main, lines 125-140: pools, but no NEAR/USDT record
MainNotFound(response) ==
    /\ pc = "start"
    /\ ~Falsy(fetch_pool_data(response))
    /\ Matches(fetch_pool_data(response)) = {}
    /\ pools' = fetch_pool_data(response)
    /\ pc' = "aborted"
    /\ UNCHANGED <<pool, iter, fetches, invocations, high_steps, volume_data,
                   transport, call>>

\* main, lines 125-143: the pool is constructed
MainConstruct(response) ==
    /\ pc = "start"
    /\ ~Falsy(fetch_pool_data(response))
    /\ Matches(fetch_pool_data(response)) # {}
    /\ pools' = fetch_pool_data(response)
    /\ pool' = LiquidityPool(FirstMatch(fetch_pool_data(response)))
    /\ pc' = "loop"
    /\ UNCHANGED <<iter, fetches, invocations, high_steps, volume_data,
                   transport, call>>

\* where main is after one more iteration
AfterIteration(i) == IF i = LoopCount THEN "done" ELSE "loop"

\* one iteration of main's loop, lines 145-149
MainIteration(response) ==
    /\ pc = "loop"
    /\ iter < LoopCount
    /\ ~VolumeRaises(response)
    /\ fetches' = fetches + 1
    /\ transport' = IF response.ok THEN "ok" ELSE "failed"
    /\ ai_agent(fetch_volume_data(pool.spot_price, response))
    /\ iter' = iter + 1
    /\ pc' = AfterIteration(iter + 1)
    /\ UNCHANGED pools

\* an iteration whose fetch_volume_data raises KeyError: main ends there
MainIterationRaises(response) ==
    /\ pc = "loop"
    /\ iter < LoopCount
    /\ VolumeRaises(response)
    /\ fetches' = fetches + 1
    /\ transport' = IF response.ok THEN "ok" ELSE "failed"
    /\ pc' = "crashed"
    /\ UNCHANGED <<pools, pool, iter, invocations, high_steps, volume_data, call>>

Next ==
    \/ \E r \in PoolResponses : MainNoPools(r)
    \/ \E r \in PoolResponses : MainNotFound(r)
    \/ \E r \in PoolResponses : MainConstruct(r)
    \/ \E r \in VolumeResponses : MainIteration(r)
    \/ \E r \in VolumeResponses : MainIterationRaises(r)

Spec == Init /\ [][Next]_vars

---------------------------------------------------------------------------
(* ai_agent driven directly: any sequence of invocations on a fresh pool *)

EngineInit ==
    /\ pc = "engine"
    /\ \E rec \in {r \in PoolRecords : NearUsdt(r.token_a, r.token_b)} :
          /\ pools = [none |-> FALSE, records |-> <<rec>>]
          /\ pool = LiquidityPool(rec)
    /\ iter = 0
    /\ fetches = 0
    /\ invocations = 0
    /\ high_steps = 0
    /\ volume_data = Frame({}, <<>>, 0)
    /\ transport = "none"
    /\ call = NoCall

EngineInvoke(df) ==
    /\ pc = "engine"
    /\ invocations < MaxSteps
    /\ HighVolume(AvgVolume(df)) => high_steps < MaxHigh
    /\ ai_agent(df)
    /\ UNCHANGED <<pc, pools, iter, fetches, transport>>

EngineNext == \E df \in EngineFrames : EngineInvoke(df)

EngineSpec == EngineInit /\ [][EngineNext]_vars

\* main's loop and direct invocations side by side
AgentSpec == (Init \/ EngineInit) /\ [][Next \/ EngineNext]_vars

---------------------------------------------------------------------------
(* Properties.  They are stated on the record of the latest call: the pool *)
(* at entry (call.entry), the signal (call.avg_volume) and the pool now.   *)

Q(n, d) == [n |-> n, d |-> d]

Called == invocations > 0

WasHigh == Called /\ RLeq(R(700), call.avg_volume)

WasLow == Called /\ RLess(call.avg_volume, R(700))

\* C1: from a fresh pool (fee 0.3), after every step of any sequence of
\* ai_agent invocations, 0.05 <= fee_tier <= 1.0.
C1_FeeClamped == RLeq(Q(1, 20), pool.fee_tier) /\ RLeq(pool.fee_tier, R(1))

\* a run that mixes both signals: the floor was applied (0.1 - 0.1 clamped to
\* 0.05) and a low-volume call then raised the fee from it
C1_Witness ==
    /\ WasLow
    /\ high_steps >= 3
    /\ call.entry.fee_tier = Q(1, 20)
    /\ pool.fee_tier = Q(3, 20)

\* C2: a call with avg_volume >= 700 (700 included) sets fee_tier to
\* max(0.05, old_fee - 0.1) and price_range to (old_lower * 0.95,
\* old_upper * 1.05), and returns that pair.
C2_HighStep ==
    WasHigh =>
        /\ pool.fee_tier = RMax(Q(1, 20), RSub(call.entry.fee_tier, Q(1, 10)))
        /\ pool.price_range = <<RMul(call.entry.price_range[1], Q(19, 20)),
                                RMul(call.entry.price_range[2], Q(21, 20))>>
        /\ call.result = <<pool.fee_tier, pool.price_range>>

\* the example: fee 0.3, range (4.75, 5.25), avg_volume 1000
C2_Witness ==
    /\ Called
    /\ call.avg_volume = R(1000)
    /\ call.entry.fee_tier = Q(3, 10)
    /\ call.entry.price_range = <<Q(19, 4), Q(21, 4)>>
    /\ pool.fee_tier = Q(1, 5)
    /\ pool.price_range = <<Q(361, 80), Q(441, 80)>>

\* round(x), to the nearest integer, ties to even, for x >= 0
RoundNearest(x) ==
    LET f == x.n \div x.d
        twice == 2 * (x.n - f * x.d)
    IN  IF twice < x.d THEN f
        ELSE IF twice > x.d THEN f + 1
        ELSE IF f % 2 = 0 THEN f ELSE f + 1

\* C3 as stated: after a high-volume call each reserve is
\* round(old_reserve * 1.1).
C3_ReservesRounded ==
    WasHigh =>
        /\ pool.reserve_a = RoundNearest(Q(11 * call.entry.reserve_a, 10))
        /\ pool.reserve_b = RoundNearest(Q(11 * call.entry.reserve_b, 10))

\* C3 amended: after a high-volume call each reserve is old_reserve * 1.1
\* truncated to an integer, floor(11 * old_reserve / 10).
C3_ReservesTruncated ==
    WasHigh =>
        /\ pool.reserve_a = (11 * call.entry.reserve_a) \div 10
        /\ pool.reserve_b = (11 * call.entry.reserve_b) \div 10

\* 7 * 1.1 = 7.7 was cut to 7, where rounding gives 8
C3_Witness ==
    /\ WasHigh
    /\ call.entry.reserve_a = 7
    /\ pool.reserve_a = 7

\* C4: a call with avg_volume < 700 sets fee_tier to min(1.0, old_fee + 0.1)
\* and price_range to (old_lower + 0.02, old_upper - 0.02) and leaves both
\* reserves unchanged.
C4_LowStep ==
    WasLow =>
        /\ pool.fee_tier = RMin(R(1), RAdd(call.entry.fee_tier, Q(1, 10)))
        /\ pool.price_range = <<RAdd(call.entry.price_range[1], Q(1, 50)),
                                RSub(call.entry.price_range[2], Q(1, 50))>>
        /\ pool.reserve_a = call.entry.reserve_a
        /\ pool.reserve_b = call.entry.reserve_b

\* the example: fee 0.3, range (4.75, 5.25), avg_volume 300
C4_Witness ==
    /\ Called
    /\ call.avg_volume = R(300)
    /\ call.entry.fee_tier = Q(3, 10)
    /\ call.entry.price_range = <<Q(19, 4), Q(21, 4)>>
    /\ pool.fee_tier = Q(2, 5)
    /\ pool.price_range = <<Q(477, 100), Q(523, 100)>>
    /\ pool.reserve_a = 1000

\* C5: a high-volume call entered with fee_tier = 0.05 leaves it at 0.05; a
\* low-volume call entered with fee_tier = 1.0 leaves it at 1.0 (so any
\* number of consecutive such calls does).
C5_ClampIdempotent ==
    /\ (WasHigh /\ call.entry.fee_tier = Q(1, 20)) => pool.fee_tier = Q(1, 20)
    /\ (WasLow /\ call.entry.fee_tier = R(1)) => pool.fee_tier = R(1)

\* a low-volume call made at the cap
C5_Witness ==
    /\ WasLow
    /\ call.entry.fee_tier = R(1)
    /\ pool.fee_tier = R(1)
    /\ invocations >= 8

\* C6: in both branches the yield estimate of a call is
\* (new_fee / 100) * avg_volume, with the fee after the call's adjustment,
\* and it is no field of the pool.
C6_YieldEstimate ==
    Called =>
        /\ call.yield_estimate = RMul(RDiv(pool.fee_tier, R(100)), call.avg_volume)
        /\ DOMAIN pool = DOMAIN call.entry
        /\ "yield_estimate" \notin DOMAIN pool

\* the example: fee 0.3 raised to 0.4, avg_volume 300, yield 1.2
C6_Witness ==
    /\ WasLow
    /\ call.avg_volume = R(300)
    /\ call.entry.fee_tier = Q(3, 10)
    /\ pool.fee_tier = Q(2, 5)
    /\ call.yield_estimate = Q(6, 5)

Width(range) == RSub(range[2], range[1])

Inverted(range) == RLess(range[2], range[1])

\* C7: every low-volume call shrinks the range's width by 0.04, whatever the
\* width: no call rejects or repairs an inverted range, so a run of
\* low-volume calls from a fresh pool reaches lower > upper.
C7_NarrowingUnguarded ==
    WasLow =>
        /\ Width(pool.price_range) = RSub(Width(call.entry.price_range), Q(1, 25))
        /\ Inverted(call.entry.price_range) => Inverted(pool.price_range)

\* only low-volume calls were made, and the latest one inverted the range
C7_Witness ==
    /\ WasLow
    /\ high_steps = 0
    /\ RLess(R(0), pool.spot_price)
    /\ RLess(call.entry.price_range[1], call.entry.price_range[2])
    /\ RLess(pool.price_range[2], pool.price_range[1])

\* C8: after a volume request that failed in transport, and after a direct
\* call with an empty frame or one without a volume column, avg_volume is
\* 5,000,000 and the high-volume branch ran; the failed request does not end
\* main, which goes on to its next iteration.
C8_FallbackVolume ==
    LET fallback ==
            /\ Called
            /\ call.avg_volume = R(5000000)
            /\ pool.fee_tier = RMax(Q(1, 20), RSub(call.entry.fee_tier, Q(1, 10)))
            /\ pool.reserve_a = (11 * call.entry.reserve_a) \div 10
            /\ pool.reserve_b = (11 * call.entry.reserve_b) \div 10
            /\ pool.price_range = <<RMul(call.entry.price_range[1], Q(19, 20)),
                                    RMul(call.entry.price_range[2], Q(21, 20))>>
    IN  /\ transport = "failed" =>
            /\ fallback
            /\ invocations = fetches
            /\ pc = IF iter < 3 THEN "loop" ELSE "done"
        /\ (pc = "engine" /\ Called
               /\ (volume_data.nrows = 0 \/ "volume" \notin volume_data.cols)) =>
            fallback

\* main's second request failed and main is about to make its third
C8_Witness ==
    /\ transport = "failed"
    /\ pc = "loop"
    /\ iter = 2
    /\ call.avg_volume = R(5000000)

\* C9: token_a, token_b, spot_price, total_liquidity and pair_id keep the
\* values of construction; a low-volume call changes neither reserve.
C9_Frame ==
    LET rec == pools.records[1]
    IN  /\ pool.token_a = rec.token_a
        /\ pool.token_b = rec.token_b
        /\ pool.spot_price = ParseFloat(rec.spot_price)
        /\ pool.total_liquidity = SumLiquidities(rec.liquidities)
        /\ pool.pair_id = rec.token_a \o "-" \o rec.token_b
        /\ Called =>
              /\ pool.token_a = call.entry.token_a
              /\ pool.token_b = call.entry.token_b
              /\ pool.spot_price = call.entry.spot_price
              /\ pool.total_liquidity = call.entry.total_liquidity
              /\ pool.pair_id = call.entry.pair_id
        /\ WasLow =>
              /\ pool.reserve_a = call.entry.reserve_a
              /\ pool.reserve_b = call.entry.reserve_b

\* both branches have run, and fee, range and reserves have all moved
C9_Witness ==
    /\ WasLow
    /\ high_steps >= 2
    /\ invocations >= 4
    /\ pool.reserve_a = 1210
    /\ pool.fee_tier # Q(3, 10)
    /\ pool.price_range # <<Q(19, 4), Q(21, 4)>>
    /\ pool.total_liquidity = R(215)
    /\ pool.pair_id = "wrap.near-usdt.tether-token.near"

\* C10: when main has ended, either the listing failed, was empty or held no
\* NEAR/USDT record, and no pool was constructed and ai_agent never ran; or
\* the pool was constructed from the first matching record and ai_agent ran
\* exactly 3 times, each after a volume fetch.
C10_RunOutcome ==
    pc \in {"done", "aborted", "crashed"} =>
        IF Falsy(pools) \/ Matches(pools) = {}
        THEN pool = NoPool /\ invocations = 0 /\ fetches = 0
        ELSE /\ pool # NoPool
             /\ pool.pair_id = "wrap.near-usdt.tether-token.near"
             /\ pool.reserve_a >= ParseInt(FirstMatch(pools).reserve_a)
             /\ pool.spot_price = ParseFloat(FirstMatch(pools).spot_price)
             /\ invocations = 3
             /\ fetches = 3

=============================================================================
